---- MODULE Spec2Model ----
(***************************************************************************)
(* A model of create_flask_project.py: the interactive scaffold run         *)
(* (menu, prerequisite gate, parameter prompts, directory resolution,      *)
(* catalog materialization, workflow finalizer) over a small filesystem.   *)
(*                                                                         *)
(* Text is a sequence of tokens.  A token is one separator character       *)
(* (" ", "\t", "\n", "\r", "/") or a run of other characters; the literal  *)
(* payload of a template is one opaque token.                              *)
(***************************************************************************)
EXTENDS Integers, Sequences, FiniteSets

VARIABLES
    profile,        \* host: what the tool probes find (read by ensure_prereqs)
    osFamily,       \* host: result of detect_platform
    shellEnv,       \* host: value of os.environ.get("SHELL", "")
    pyVersion,      \* host: value of platform.python_version()
    faultAt,        \* host: the write_text call (by position) that raises OSError, 0 = none
    dirs,           \* filesystem: the directories that exist
    files,          \* filesystem: file path -> content
    stdin,          \* the lines the user will still type
    pc,             \* position of the run in main()
    option,         \* main: option
    project_name,   \* main: project_name
    description,    \* main: description
    author,         \* main: author
    poetry,         \* main: poetry_name .. requires_python, as collected so far
    project_root,   \* main: project_root
    idx,            \* position in the catalog of the next write_text call
    exitCode,       \* exit status of the process, -1 while it runs
    outcome,        \* how the run ended
    prompts,        \* the prompts issued so far by this run, in order
    reported,       \* the "- ... not found" lines printed by ensure_prereqs
    answer,         \* ensure_project_dir: answer, as <<answer>> once it is read
    written,        \* the paths this run created or wrote
    runsLeft,       \* how many more times the user will start the script
    start,          \* the filesystem when this run started
    prev,           \* the previous run: its inputs and the filesystem it left
    executed,       \* the external commands this run has executed
    aliasAt,        \* concurrent ensure_poetry_alias calls: the position of each
    aliasContent,   \* concurrent ensure_poetry_alias calls: content, as each read it
    text,           \* write_text on its own: the content it is called with
    appended        \* how many lines another writer has appended to the rc file

vars == <<profile, osFamily, shellEnv, pyVersion, faultAt, dirs, files, stdin, pc, option,
          project_name, description, author, poetry, project_root, idx,
          exitCode, outcome, prompts, reported, answer, written, runsLeft,
          start, prev, executed, aliasAt, aliasContent, text,
          appended>>

----------------------------------------------------------------------------
(* Text helpers: str.strip, str.lower, str.rstrip("\n"), startswith, ...   *)

\* The characters str.strip() removes.
Whitespace == {" ", "\t", "\n", "\r"}

RECURSIVE LStrip(_)
LStrip(s) == IF s # <<>> /\ Head(s) \in Whitespace THEN LStrip(Tail(s)) ELSE s

RECURSIVE RStrip(_)
RStrip(s) == IF s # <<>> /\ s[Len(s)] \in Whitespace
             THEN RStrip(SubSeq(s, 1, Len(s) - 1)) ELSE s

\* str.strip()
Strip(s) == RStrip(LStrip(s))

\* str.lower() of one token.
LowerToken(t) ==
    CASE t = "Y"   -> "y"
      [] t = "N"   -> "n"
      [] t = "YES" -> "yes"
      [] t = "Yes" -> "yes"
      [] t = "NO"  -> "no"
      [] t = "No"  -> "no"
      [] t = "Q"   -> "q"
      [] OTHER     -> t

\* str.lower()
Lower(s) == [i \in 1..Len(s) |-> LowerToken(s[i])]

\* str.rstrip("\n")
RECURSIVE RStripNewlines(_)
RStripNewlines(s) == IF s # <<>> /\ s[Len(s)] = "\n"
                     THEN RStripNewlines(SubSeq(s, 1, Len(s) - 1)) ELSE s

\* str.startswith
StartsWith(s, p) == Len(p) <= Len(s) /\ SubSeq(s, 1, Len(p)) = p

\* str.endswith
EndsWith(s, p) == Len(p) <= Len(s) /\ SubSeq(s, Len(s) - Len(p) + 1, Len(s)) = p

\* Path.read_text opens in text mode: "\r\n" and "\r" are read as "\n".
RECURSIVE UniversalNewlines(_)
UniversalNewlines(s) ==
    IF s = <<>> THEN <<>>
    ELSE IF Head(s) = "\r"
         THEN IF Len(s) >= 2 /\ s[2] = "\n"
              THEN <<"\n">> \o UniversalNewlines(Tail(Tail(s)))
              ELSE <<"\n">> \o UniversalNewlines(Tail(s))
         ELSE <<Head(s)>> \o UniversalNewlines(Tail(s))

\* str.splitlines(): the lines of s, without their line ends.
RECURSIVE SplitLinesAcc(_, _)
SplitLinesAcc(s, cur) ==
    IF s = <<>> THEN (IF cur = <<>> THEN <<>> ELSE <<cur>>)
    ELSE IF Head(s) = "\n" THEN <<cur>> \o SplitLinesAcc(Tail(s), <<>>)
    ELSE IF Head(s) = "\r"
         THEN IF Len(s) >= 2 /\ s[2] = "\n"
              THEN <<cur>> \o SplitLinesAcc(Tail(Tail(s)), <<>>)
              ELSE <<cur>> \o SplitLinesAcc(Tail(s), <<>>)
    ELSE SplitLinesAcc(Tail(s), Append(cur, Head(s)))

SplitLines(s) == SplitLinesAcc(s, <<>>)

----------------------------------------------------------------------------
(* Paths: an absolute path is the sequence of its components.              *)

\* HOME = Path.home()
HOME == <<"home", "user">>

\* The components of a path given as text: pathlib drops empty and "."
\* components.
RECURSIVE ComponentsAcc(_, _)
ComponentsAcc(s, acc) ==
    IF s = <<>> THEN acc
    ELSE IF Head(s) \in {"/", "."} THEN ComponentsAcc(Tail(s), acc)
    ELSE ComponentsAcc(Tail(s), Append(acc, Head(s)))

Components(s) == ComponentsAcc(s, <<>>)

\* HOME / project_name: an absolute right operand replaces the left one.
JoinHome(name) ==
    IF name # <<>> /\ Head(name) = "/" THEN Components(name)
    ELSE HOME \o Components(name)

\* Path.relative_to(HOME) succeeds only below HOME.
IsUnderHome(p) == StartsWith(p, HOME)

Parent(p) == SubSeq(p, 1, Len(p) - 1)

Ancestors(p) == {SubSeq(p, 1, k) : k \in 0..(Len(p) - 1)}

IsDir(d, p) == p \in d

IsFile(f, p) == p \in DOMAIN f

\* Path.exists()
PathExists(d, f, p) == IsDir(d, p) \/ IsFile(f, p)

\* Faulty variant: only files count as entries of a directory.
HasEntries_FilesOnly(d, f, p) ==
    \E q \in DOMAIN f : Len(q) = Len(p) + 1 /\ StartsWith(q, p)

\* any(project_root.iterdir())
HasEntries(d, f, p) ==
    \E q \in d \cup DOMAIN f : Len(q) = Len(p) + 1 /\ StartsWith(q, p)

\* Everything that lies below p.
Below(d, f, p) == {q \in d \cup DOMAIN f : Len(q) > Len(p) /\ StartsWith(q, p)}

\* Path.mkdir(parents=True, exist_ok=True) raises when a component is a file.
CanMkdir(f, p) == \A k \in 1..Len(p) : ~IsFile(f, SubSeq(p, 1, k))

\* Path.mkdir(parents=True, exist_ok=True)
Mkdir(d, p) == d \cup {SubSeq(p, 1, k) : k \in 0..Len(p)}

\* Faulty variant: writing a file clears away the files that were there.
PutFile_DroppingOthers(f, p, content) == [q \in {p} |-> content]

\* Faulty variant: the file is opened for appending.
PutFile_Appending(f, p, content) ==
    [q \in DOMAIN f \cup {p} |->
        IF q = p THEN (IF p \in DOMAIN f THEN f[p] ELSE <<>>) \o content ELSE f[q]]

\* Faulty variant: a file that exists is left as it is.
PutFile_KeepingExisting(f, p, content) ==
    [q \in DOMAIN f \cup {p} |-> IF q = p /\ p \notin DOMAIN f THEN content ELSE f[q]]

\* Path.write_text(content): create or replace the file.
PutFile(f, p, content) ==
    [q \in DOMAIN f \cup {p} |-> IF q = p THEN content ELSE f[q]]

----------------------------------------------------------------------------
(* The template catalog: the write_text calls of the scaffold_* functions, *)
(* in the order main() makes them.                                         *)

Catalog ==
    << 
       [rel |-> <<".flaskenv">>, lit |-> "<.flaskenv>"],
       [rel |-> <<".env">>, lit |-> "<.env>"],
       [rel |-> <<".gitignore">>, lit |-> "<.gitignore>"],
       [rel |-> <<".gitattributes">>, lit |-> "<.gitattributes>"],
       [rel |-> <<"LICENSE">>, lit |-> "<LICENSE>"],
       [rel |-> <<"README.md">>, lit |-> "<README.md>"],
       [rel |-> <<"CONTRIBUTING.md">>, lit |-> "<CONTRIBUTING.md>"],
       [rel |-> <<"CODE_OF_CONDUCT.md">>, lit |-> "<CODE_OF_CONDUCT.md>"],
       [rel |-> <<"config.py">>, lit |-> "<config.py>"],
       [rel |-> <<"app", "__init__.py">>, lit |-> "<app/__init__.py>"],
       [rel |-> <<"main.py">>, lit |-> "<main.py>"],
       [rel |-> <<"app", "models.py">>, lit |-> "<app/models.py>"],
       [rel |-> <<"app", "auth", "forms.py">>, lit |-> "<app/auth/forms.py>"],
       [rel |-> <<"app", "main", "forms.py">>, lit |-> "<app/main/forms.py>"],
       [rel |-> <<"app", "email.py">>, lit |-> "<app/email.py>"],
       [rel |-> <<"app", "errors", "__init__.py">>, lit |-> "<app/errors/__init__.py>"],
       [rel |-> <<"app", "errors", "handlers.py">>, lit |-> "<app/errors/handlers.py>"],
       [rel |-> <<"app", "utils", "__init__.py">>, lit |-> "<app/utils/__init__.py>"],
       [rel |-> <<"app", "utils", "decorators.py">>, lit |-> "<app/utils/decorators.py>"],
       [rel |-> <<"app", "main", "__init__.py">>, lit |-> "<app/main/__init__.py>"],
       [rel |-> <<"app", "main", "routes.py">>, lit |-> "<app/main/routes.py>"],
       [rel |-> <<"app", "auth", "__init__.py">>, lit |-> "<app/auth/__init__.py>"],
       [rel |-> <<"app", "auth", "email.py">>, lit |-> "<app/auth/email.py>"],
       [rel |-> <<"app", "auth", "routes.py">>, lit |-> "<app/auth/routes.py>"],
       [rel |-> <<"app", "admin", "__init__.py">>, lit |-> "<app/admin/__init__.py>"],
       [rel |-> <<"app", "admin", "routes.py">>, lit |-> "<app/admin/routes.py>"],
       [rel |-> <<"app", "templates", "base.html">>, lit |-> "<app/templates/base.html>"],
       [rel |-> <<"app", "templates", "partials", "_flash_messages.html">>, lit |-> "<app/templates/partials/_flash_messages.html>"],
       [rel |-> <<"app", "templates", "partials", "_footer.html">>, lit |-> "<app/templates/partials/_footer.html>"],
       [rel |-> <<"app", "templates", "partials", "_public_navbar.html">>, lit |-> "<app/templates/partials/_public_navbar.html>"],
       [rel |-> <<"app", "templates", "partials", "_dashboard_navbar.html">>, lit |-> "<app/templates/partials/_dashboard_navbar.html>"],
       [rel |-> <<"app", "templates", "main", "index.html">>, lit |-> "<app/templates/main/index.html>"],
       [rel |-> <<"app", "templates", "main", "contact.html">>, lit |-> "<app/templates/main/contact.html>"],
       [rel |-> <<"app", "templates", "auth", "login.html">>, lit |-> "<app/templates/auth/login.html>"],
       [rel |-> <<"app", "templates", "auth", "register.html">>, lit |-> "<app/templates/auth/register.html>"],
       [rel |-> <<"app", "templates", "auth", "request_password_reset.html">>, lit |-> "<app/templates/auth/request_password_reset.html>"],
       [rel |-> <<"app", "templates", "auth", "reset_password.html">>, lit |-> "<app/templates/auth/reset_password.html>"],
       [rel |-> <<"app", "templates", "dashboard", "dashboard.html">>, lit |-> "<app/templates/dashboard/dashboard.html>"],
       [rel |-> <<"app", "templates", "errors", "404_public.html">>, lit |-> "<app/templates/errors/404_public.html>"],
       [rel |-> <<"app", "templates", "errors", "404_dashboard.html">>, lit |-> "<app/templates/errors/404_dashboard.html>"],
       [rel |-> <<"app", "templates", "errors", "500_public.html">>, lit |-> "<app/templates/errors/500_public.html>"],
       [rel |-> <<"app", "templates", "errors", "500_dashboard.html">>, lit |-> "<app/templates/errors/500_dashboard.html>"],
       [rel |-> <<"app", "templates", "emails", "reset_password.txt">>, lit |-> "<app/templates/emails/reset_password.txt>"],
       [rel |-> <<"app", "templates", "emails", "reset_password.html">>, lit |-> "<app/templates/emails/reset_password.html>"],
       [rel |-> <<"app", "static", "css", "main.css">>, lit |-> "<app/static/css/main.css>"],
       [rel |-> <<"app", "static", "css", "dashboard.css">>, lit |-> "<app/static/css/dashboard.css>"],
       [rel |-> <<"app", "static", "js", "main.js">>, lit |-> "<app/static/js/main.js>"],
       [rel |-> <<"app", "static", "js", "dashboard.js">>, lit |-> "<app/static/js/dashboard.js>"],
       [rel |-> <<"app", "static", "img", ".gitkeep">>, lit |-> "<app/static/img/.gitkeep>"]
    >>

NumEntries == Len(Catalog)

CatalogPaths == {Catalog[i].rel : i \in 1..NumEntries}

RequirementsPath == <<"requirements.txt">>

PyprojectPath == <<"pyproject.toml">>

\* The templates that are the empty string.
EmptyTemplates == {<<"app", "utils", "__init__.py">>, <<"app", "static", "img", ".gitkeep">>}

\* The templates whose literal starts on the line after the opening quotes.
LeadingNewline(rel) ==
    /\ rel \notin EmptyTemplates
    /\ ~(Len(rel) >= 2 /\ rel[1] = "app" /\ rel[2] \in {"templates", "static"})

\* Faulty variant: the LICENSE text carries the value read into year.
Render_YearInLicense(e, name, desc, auth, version) ==
    LET rel == e.rel
        lit == e.lit
        year == version
    IN
    IF rel \in EmptyTemplates THEN <<>>
    ELSE IF rel = <<"LICENSE">>
         THEN <<"\n", "MIT License", "\n", "\n", "Copyright (c) ", year, " ">> \o auth
              \o <<"\n", lit, "\n">>
    ELSE IF rel = <<"README.md">>
         THEN <<"\n", "# ">> \o name \o <<"\n", "\n">> \o desc
              \o <<"\n", lit, "\n">>
    ELSE (IF LeadingNewline(rel) THEN <<"\n">> ELSE <<>>) \o <<lit, "\n">>

\* The text a scaffold_* function passes to write_text for a catalog entry;
\* e.lit is the opaque literal payload of its template.  version is what
\* platform.python_version() returns: scaffold_top_level_files reads it into
\* year, and the LICENSE template has no {year} in it.
Render(e, name, desc, auth, version) ==
    LET rel == e.rel
        lit == e.lit
        year == version
    IN
    IF rel \in EmptyTemplates THEN <<>>
    ELSE IF rel = <<"LICENSE">>
         THEN <<"\n", "MIT License", "\n", "\n", "Copyright (c) ">> \o auth
              \o <<"\n", lit, "\n">>
    ELSE IF rel = <<"README.md">>
         THEN <<"\n", "# ">> \o name \o <<"\n", "\n">> \o desc
              \o <<"\n", lit, "\n">>
    ELSE (IF LeadingNewline(rel) THEN <<"\n">> ELSE <<>>) \o <<lit, "\n">>

\* write_requirements: the static manifest.
RenderRequirements == <<"<requirements.txt>", "\n">>

\* write_poetry_files: pyproject.toml from the Poetry fields.  The literal's
\* first line is not indented, so textwrap.dedent removes nothing and every
\* later line keeps the indentation it has in the source.
RenderPyproject(p) ==
    LET in8 == "        "
        in12 == "            "
        authors_field ==
            IF p.author_email # <<>>
            THEN <<"{name = \"">> \o p.author_name \o <<"\", email = \"">>
                 \o p.author_email \o <<"\"}">>
            ELSE <<"{name = \"">> \o p.author_name \o <<"\"}">>
    IN  <<"[project]", "\n", in8, "name = \"">> \o p.poetry_name
        \o <<"\"", "\n", in8, "version = \"">> \o p.poetry_version
        \o <<"\"", "\n", in8, "description = \"">> \o p.poetry_description
        \o <<"\"", "\n", in8, "authors = [", "\n", in12>> \o authors_field
        \o <<"\n", in8, "]", "\n", in8, "license = {file = \"LICENSE\"}", "\n",
             in8, "readme = \"README.md\"", "\n", in8, "requires-python = \"">>
        \o p.requires_python
        \o <<"\"", "\n", in8, "dependencies = []", "\n", "\n", "\n",
             "<pyproject.toml>", "\n">>

\* Faulty variant: a newline is added without stripping the ones there.
WriteTextBytes_AppendingOnly(content) == content \o <<"\n">>

\* write_text writes content.rstrip("\n") + "\n".
WriteTextBytes(content) == RStripNewlines(content) \o <<"\n">>

----------------------------------------------------------------------------
(* The environment prober and the workflow validator.                      *)

\* A host: is pyenv on PATH, is poetry on PATH, and what running
\* `pyenv virtualenvs` does there.  Without pyenv on PATH the command cannot
\* be started (FileNotFoundError, an OSError).
Profiles ==
    {pr \in [pyenv : BOOLEAN, poetry : BOOLEAN,
             virtualenvs : {"ok", "nonzero", "oserror"}] :
        ~pr.pyenv => pr.virtualenvs = "oserror"}

\* have_command("pyenv")
check_pyenv(pr) == pr.pyenv

\* have_command("poetry")
check_poetry(pr) == pr.poetry

\* Faulty variant: the exit status of `pyenv virtualenvs` is not looked at.
check_pyenv_virtualenv_IgnoringStatus(pr) ==
    check_pyenv(pr) /\ pr.virtualenvs # "oserror"

\* check_pyenv_virtualenv: False without pyenv, else returncode == 0, and
\* False on OSError.
check_pyenv_virtualenv(pr) ==
    IF ~check_pyenv(pr) THEN FALSE
    ELSE IF pr.virtualenvs = "oserror" THEN FALSE
    ELSE pr.virtualenvs = "ok"

\* Faulty variant: `pyenv virtualenvs` is run whether or not pyenv is there.
SubprocessRun_WithoutPyenv(pr) == {<<"pyenv", "virtualenvs">>}

\* The commands check_pyenv_virtualenv hands to subprocess.run: none when
\* check_pyenv() is False.  have_command only searches PATH.
SubprocessRun(pr) ==
    IF ~check_pyenv(pr) THEN {} ELSE {<<"pyenv", "virtualenvs">>}

\* Faulty variant: the pyenv line is printed only for the Poetry workflow.
MissingReported_PyenvOnlyForPoetry(opt, pr) ==
    IF opt = "1"
    THEN (IF ~check_pyenv(pr) THEN {"pyenv"} ELSE {})
         \cup (IF ~check_poetry(pr) THEN {"poetry"} ELSE {})
    ELSE IF opt = "2"
    THEN (IF ~check_pyenv_virtualenv(pr) THEN {"pyenv-virtualenv"} ELSE {})
    ELSE {}

\* ensure_prereqs: the tools its "- ..." lines name as missing.
MissingReported(opt, pr) ==
    (IF ~check_pyenv(pr) THEN {"pyenv"} ELSE {})
    \cup (IF opt = "1"
          THEN (IF ~check_poetry(pr) THEN {"poetry"} ELSE {})
          ELSE IF opt = "2"
          THEN (IF ~check_pyenv_virtualenv(pr) THEN {"pyenv-virtualenv"} ELSE {})
          ELSE {})

\* Faulty variant: a missing Poetry does not clear ok.
ensure_prereqs_IgnoringPoetry(opt, pr) ==
    /\ check_pyenv(pr)
    /\ (opt = "2" => check_pyenv_virtualenv(pr))

\* Faulty variant: the second workflow checks Poetry instead of the plugin.
ensure_prereqs_PoetryForBoth(opt, pr) ==
    /\ check_pyenv(pr)
    /\ (opt \in {"1", "2"} => check_poetry(pr))

\* Faulty variant: every host passes the gate.
ensure_prereqs_AlwaysReady(opt, pr) == TRUE

\* ensure_prereqs: its return value ok.
ensure_prereqs(opt, pr) ==
    /\ check_pyenv(pr)
    /\ (opt = "1" => check_poetry(pr))
    /\ (opt = "2" => check_pyenv_virtualenv(pr))

----------------------------------------------------------------------------
(* Prompts.                                                                *)

\* The keys of the workflow menu.
Choices == {"1", "2", "q"}

\* prompt_choice accepts value = input().strip() when value in choices.
ChoiceOf(line) == Strip(line)

\* Faulty variant: the key is matched without regard to case.
IsChoice_AnyCase(line) ==
    Len(ChoiceOf(line)) = 1 /\ Lower(ChoiceOf(line))[1] \in Choices

IsChoice(line) == Len(ChoiceOf(line)) = 1 /\ ChoiceOf(line)[1] \in Choices

\* Faulty variant: the trimmed input is returned even when it is empty.
prompt_with_default_NoDefault(line, default) == Strip(line)

\* prompt_with_default: value or default.
prompt_with_default(line, default) ==
    IF Strip(line) # <<>> THEN Strip(line) ELSE default

DefaultProjectName == <<"flask_project">>

DefaultDescription == <<"A", " ", "starter", " ", "Flask", " ", "application.">>

DefaultAuthor == <<"Your", " ", "Name">>

DefaultVersion == <<"0.1.0">>

DefaultEmail == <<"you@example.com">>

DefaultLicense == <<"MIT">>

DefaultPython == <<">=3.10,<4.0">>

\* Faulty variant: the empty answer is not taken as the default Y.
AbortAnswers_WithoutDefault == {<<"y">>, <<"yes">>}

\* ensure_project_dir exits when answer in {"", "y", "yes"}.
AbortAnswers == {<<>>, <<"y">>, <<"yes">>}

\* answer = input(...).strip().lower()
ConflictAnswer(line) == Lower(Strip(line))

\* Faulty variant: every workflow is treated as the Poetry one.
UsePoetry_Always(opt) == TRUE

\* Faulty variant: the workflows are swapped.
UsePoetry_Swapped(opt) == opt = "2"

\* use_poetry = option == "1"
UsePoetry(opt) == opt = "1"

\* Faulty variant: the license identifier is asked for a second time.
PoetryFields_LicenseTwice ==
    <<"poetry_name", "poetry_version", "poetry_description", "author_name",
      "author_email", "license_id", "license_id", "requires_python">>

\* The Poetry prompts of main(), in order, and the fields they fill.
PoetryFields == <<"poetry_name", "poetry_version", "poetry_description",
                  "author_name", "author_email", "license_id", "requires_python">>

\* The default main() shows at a Poetry prompt.
PoetryDefault(f) ==
    CASE f = "poetry_name"        -> project_name
      [] f = "poetry_version"     -> DefaultVersion
      [] f = "poetry_description" -> description
      [] f = "author_name"        -> author
      [] f = "author_email"       -> DefaultEmail
      [] f = "license_id"         -> DefaultLicense
      [] f = "requires_python"    -> DefaultPython

----------------------------------------------------------------------------
(* The shell alias of the Poetry workflow.                                 *)

AliasKey == "alias pf="

\* alias_line = "alias pf='poetry run flask'"
AliasLine == <<AliasKey, "'poetry run flask'">>

\* The words whose last three characters are "zsh".
ZshSuffixed == {"zsh", "fizsh"}

\* shell.endswith("zsh"): a test on the characters of the value, so on its
\* last word.
EndsWithZsh(shell) == shell # <<>> /\ shell[Len(shell)] \in ZshSuffixed

\* Faulty variant: the shell decides alone, whatever the platform.
RcPath_IgnoringPlatform(os, shell) ==
    IF EndsWithZsh(shell) THEN HOME \o <<".zshrc">> ELSE HOME \o <<".bashrc">>

\* rc_path of ensure_poetry_alias.
RcPath(os, shell) ==
    IF os \in {"macos", "ubuntu", "wsl", "linux"}
    THEN IF EndsWithZsh(shell) THEN HOME \o <<".zshrc">>
         ELSE HOME \o <<".bashrc">>
    ELSE HOME \o <<".bashrc">>

\* content of ensure_poetry_alias: the file as read, "" when it is missing.
RcContent(f, rc) == IF IsFile(f, rc) THEN UniversalNewlines(f[rc]) ELSE <<>>

\* Faulty variant: only the exact alias line counts as an existing alias.
IsAliasLine_Exact(line) == Strip(line) = <<"alias pf=", "'poetry run flask'">>

\* One line of the rc file counts as an existing alias.
IsAliasLine(line) == StartsWith(Strip(line), <<AliasKey>>)

\* The duplicate scan: any line of content.splitlines() is an alias line.
AliasPresent(content) ==
    \E i \in 1..Len(SplitLines(content)) : IsAliasLine(SplitLines(content)[i])

\* new_content = content.rstrip("\n") + "\n" + alias_line + "\n"
AliasNewContent(content) ==
    RStripNewlines(content) \o <<"\n">> \o AliasLine \o <<"\n">>

\* Faulty variant: the alias goes to ~/.zshrc and ~/.bashrc alike.
FilesAfterAlias_BothStartupFiles(f, rc) ==
    LET put(g, p) == IF IsFile(g, p) /\ AliasPresent(RcContent(g, p)) THEN g
                     ELSE PutFile(g, p, AliasNewContent(RcContent(g, p)))
    IN  put(put(f, HOME \o <<".zshrc">>), HOME \o <<".bashrc">>)

\* ensure_poetry_alias on the files f: skip when the alias is there, else
\* rewrite the rc file.
FilesAfterAlias(f, rc) ==
    IF IsFile(f, rc) /\ AliasPresent(RcContent(f, rc)) THEN f
    ELSE PutFile(f, rc, AliasNewContent(RcContent(f, rc)))

----------------------------------------------------------------------------
(* write_text, with the ways it can raise.                                 *)

\* write_text with a failed write passed over in silence.
write_text_ContinuingAfterFailure(d, f, path, content, pos) ==
    IF ~CanMkdir(f, Parent(path))
    THEN [dirs |-> d, files |-> f, wrote |-> FALSE, raised |-> FALSE]
    ELSE IF IsDir(d, path) \/ faultAt = pos
    THEN [dirs |-> Mkdir(d, Parent(path)), files |-> f, wrote |-> FALSE,
          raised |-> FALSE]
    ELSE [dirs |-> Mkdir(d, Parent(path)),
          files |-> PutFile(f, path, WriteTextBytes(content)),
          wrote |-> TRUE, raised |-> ~IsUnderHome(path)]

\* write_text(path, content) as the pos-th write of the run, on directories d
\* and files f.  parent.mkdir raises when a component of the parent is a
\* file; Path.write_text raises when the path is a directory or the host
\* fails this write; relative_to(HOME) raises, after the write, outside HOME.
write_text(d, f, path, content, pos) ==
    IF ~CanMkdir(f, Parent(path))
    THEN [dirs |-> d, files |-> f, wrote |-> FALSE, raised |-> TRUE]
    ELSE IF IsDir(d, path) \/ faultAt = pos
    THEN [dirs |-> Mkdir(d, Parent(path)), files |-> f, wrote |-> FALSE,
          raised |-> TRUE]
    ELSE [dirs |-> Mkdir(d, Parent(path)),
          files |-> PutFile(f, path, WriteTextBytes(content)),
          wrote |-> TRUE, raised |-> ~IsUnderHome(path)]

\* The paths a write_text call with result r created or wrote.
PathsTouched(d, r, path) == (r.dirs \ d) \cup (IF r.wrote THEN {path} ELSE {})

----------------------------------------------------------------------------
(* main()                                                                  *)

Exit(code, how) == pc' = "exited" /\ exitCode' = code /\ outcome' = how

\* An exception nobody catches: traceback, exit status 1.
Crash == Exit(1, "crash")

host == <<profile, osFamily, shellEnv, pyVersion, faultAt, runsLeft>>

fs == <<dirs, files>>

params == <<project_name, description, author, poetry>>

snapshots == <<start, prev>>

race == <<aliasAt, aliasContent, appended>>

\* option = prompt_choice(...), then the quit branch of main.
PromptChoice ==
    /\ pc = "menu"
    /\ stdin # <<>>
    /\ stdin' = Tail(stdin)
    /\ prompts' = Append(prompts, "menu")
    /\ IF IsChoice(Head(stdin))
       THEN /\ option' = ChoiceOf(Head(stdin))[1]
            /\ IF option' = "q"
               THEN Exit(0, "quit")
               ELSE pc' = "prereqs" /\ UNCHANGED <<exitCode, outcome>>
       ELSE UNCHANGED <<option, pc, exitCode, outcome>>
    /\ UNCHANGED <<host, race, text, executed, fs, params, project_root, idx, reported, answer,
                   written, snapshots>>

\* if not ensure_prereqs(option): sys.exit(1)
EnsurePrereqs ==
    /\ pc = "prereqs"
    /\ reported' = MissingReported(option, profile)
    /\ executed' = executed \cup SubprocessRun(profile)
    /\ IF ensure_prereqs(option, profile)
       THEN pc' = "ask_name" /\ UNCHANGED <<exitCode, outcome>>
       ELSE Exit(1, "prereq")
    /\ UNCHANGED <<host, race, text, fs, stdin, option, params, project_root, idx, prompts,
                   answer, written, snapshots>>

\* project_name = prompt_with_default(..., "flask_project")
AskProjectName ==
    /\ pc = "ask_name"
    /\ stdin # <<>>
    /\ stdin' = Tail(stdin)
    /\ prompts' = Append(prompts, "project_name")
    /\ project_name' = prompt_with_default(Head(stdin), DefaultProjectName)
    /\ pc' = "ask_description"
    /\ UNCHANGED <<host, race, text, executed, fs, option, description, author, poetry, project_root,
                   idx, exitCode, outcome, reported, answer, written, snapshots>>

\* description = prompt_with_default(..., "A starter Flask application.")
AskDescription ==
    /\ pc = "ask_description"
    /\ stdin # <<>>
    /\ stdin' = Tail(stdin)
    /\ prompts' = Append(prompts, "description")
    /\ description' = prompt_with_default(Head(stdin), DefaultDescription)
    /\ pc' = "ask_author"
    /\ UNCHANGED <<host, race, text, executed, fs, option, project_name, author, poetry, project_root,
                   idx, exitCode, outcome, reported, answer, written, snapshots>>

\* author = prompt_with_default(..., "Your Name")
AskAuthor ==
    /\ pc = "ask_author"
    /\ stdin # <<>>
    /\ stdin' = Tail(stdin)
    /\ prompts' = Append(prompts, "author")
    /\ author' = prompt_with_default(Head(stdin), DefaultAuthor)
    /\ pc' = "ensure_dir"
    /\ UNCHANGED <<host, race, text, executed, fs, option, project_name, description, poetry,
                   project_root, idx, exitCode, outcome, reported, answer,
                   written, snapshots>>

\* project_root = ensure_project_dir(project_name)
EnsureProjectDir ==
    /\ pc = "ensure_dir"
    /\ LET root == JoinHome(project_name) IN
       /\ project_root' = root
       /\ IF IsFile(files, root)
          THEN \* exists(), then iterdir() raises NotADirectoryError
               /\ Crash
               /\ UNCHANGED <<fs, stdin, prompts, answer, written>>
          ELSE IF IsDir(dirs, root) /\ HasEntries(dirs, files, root)
          THEN /\ prompts' = Append(prompts, "conflict")
               /\ IF stdin = <<>>
                  THEN Crash /\ UNCHANGED <<stdin, answer>>
                  ELSE /\ stdin' = Tail(stdin)
                       /\ answer' = <<ConflictAnswer(Head(stdin))>>
                       /\ IF ConflictAnswer(Head(stdin)) \in AbortAnswers
                          THEN Exit(1, "conflict")
                          ELSE pc' = "scaffold" /\ UNCHANGED <<exitCode, outcome>>
               /\ UNCHANGED <<fs, written>>
          ELSE IF IsDir(dirs, root)
          THEN /\ pc' = "scaffold"
               /\ UNCHANGED <<fs, stdin, prompts, answer, written, exitCode, outcome>>
          ELSE IF CanMkdir(files, root)
          THEN /\ dirs' = Mkdir(dirs, root)
               /\ written' = written \cup (dirs' \ dirs)
               /\ pc' = "scaffold"
               /\ UNCHANGED <<files, stdin, prompts, answer, exitCode, outcome>>
          ELSE /\ Crash
               /\ UNCHANGED <<fs, stdin, prompts, answer, written>>
    /\ UNCHANGED <<host, race, text, executed, option, params, idx, reported, snapshots>>

\* The next write_text call of scaffold_top_level_files .. scaffold_static.
WriteCatalogEntry ==
    /\ pc = "scaffold"
    /\ LET path == project_root \o Catalog[idx].rel
           r == write_text(dirs, files, path,
                           Render(Catalog[idx], project_name, description, author,
                                  pyVersion), idx)
       IN /\ dirs' = r.dirs
          /\ files' = r.files
          /\ written' = written \cup PathsTouched(dirs, r, path)
          /\ IF r.raised
             THEN Crash /\ UNCHANGED idx
             ELSE /\ idx' = idx + 1
                  /\ pc' = IF idx < NumEntries THEN "scaffold"
                           ELSE IF UsePoetry(option) THEN "ask_poetry"
                           ELSE "write_requirements"
                  /\ UNCHANGED <<exitCode, outcome>>
    /\ UNCHANGED <<host, race, text, executed, stdin, option, params, project_root, prompts, reported,
                   answer, snapshots>>

\* The next prompt_with_default of the Poetry block of main.
AskPoetry ==
    /\ pc = "ask_poetry"
    /\ stdin # <<>>
    /\ LET f == PoetryFields[Len(poetry) + 1] IN
       /\ stdin' = Tail(stdin)
       /\ prompts' = Append(prompts, f)
       /\ poetry' = Append(poetry, prompt_with_default(Head(stdin), PoetryDefault(f)))
       /\ pc' = IF Len(poetry') = Len(PoetryFields) THEN "write_pyproject" ELSE "ask_poetry"
    /\ UNCHANGED <<host, race, text, executed, fs, option, project_name, description, author,
                   project_root, idx, exitCode, outcome, reported, answer,
                   written, snapshots>>

\* write_poetry_files(project_root, poetry_name, ..., requires_python)
PoetryRecord(p) ==
    [poetry_name |-> p[1], poetry_version |-> p[2], poetry_description |-> p[3],
     author_name |-> p[4], author_email |-> p[5], license_id |-> p[6],
     requires_python |-> p[7]]

WritePoetryFiles ==
    /\ pc = "write_pyproject"
    /\ LET path == project_root \o PyprojectPath
           r == write_text(dirs, files, path, RenderPyproject(PoetryRecord(poetry)),
                           NumEntries + 1)
       IN /\ dirs' = r.dirs
          /\ files' = r.files
          /\ written' = written \cup PathsTouched(dirs, r, path)
          /\ IF r.raised THEN Crash
             ELSE pc' = "alias" /\ UNCHANGED <<exitCode, outcome>>
    /\ UNCHANGED <<host, race, text, executed, stdin, option, params, project_root, idx, prompts,
                   reported, answer, snapshots>>

\* ensure_poetry_alias(), then the closing summary of main: exit status 0.
\* Reading an rc path that is a directory, or a failing write, raises.
EnsurePoetryAlias ==
    /\ pc = "alias"
    /\ LET rc == RcPath(osFamily, shellEnv)
           skip == IsFile(files, rc) /\ AliasPresent(RcContent(files, rc))
       IN IF IsDir(dirs, rc) \/ (~skip /\ faultAt = NumEntries + 2)
          THEN Crash /\ UNCHANGED <<files, written>>
          ELSE /\ files' = FilesAfterAlias(files, rc)
               /\ written' = IF skip THEN written ELSE written \cup {rc}
               /\ Exit(0, "done")
    /\ UNCHANGED <<host, race, text, executed, dirs, stdin, option, params, project_root, idx, prompts,
                   reported, answer, snapshots>>

\* write_requirements(project_root), then the closing summary of main.
WriteRequirements ==
    /\ pc = "write_requirements"
    /\ LET path == project_root \o RequirementsPath
           r == write_text(dirs, files, path, RenderRequirements, NumEntries + 1)
       IN /\ dirs' = r.dirs
          /\ files' = r.files
          /\ written' = written \cup PathsTouched(dirs, r, path)
          /\ IF r.raised THEN Crash ELSE Exit(0, "done")
    /\ UNCHANGED <<host, race, text, executed, stdin, option, params, project_root, idx, prompts,
                   reported, answer, snapshots>>

\* The prompt input() shows at each position that reads a line.
PromptAt(p) ==
    CASE p = "menu"            -> "menu"
      [] p = "ask_name"        -> "project_name"
      [] p = "ask_description" -> "description"
      [] p = "ask_author"      -> "author"
      [] p = "ask_poetry"      -> PoetryFields[Len(poetry) + 1]

\* input() at end of input raises EOFError.
EndOfInput ==
    /\ pc \in {"menu", "ask_name", "ask_description", "ask_author", "ask_poetry"}
    /\ stdin = <<>>
    /\ prompts' = Append(prompts, PromptAt(pc))
    /\ Crash
    /\ UNCHANGED <<host, race, text, executed, fs, stdin, option, params, project_root, idx, reported,
                   answer, written, snapshots>>

\* The user starts the script again: a new process on the same filesystem.
RunAgain ==
    /\ pc = "exited"
    /\ runsLeft > 0
    /\ runsLeft' = runsLeft - 1
    /\ prev' = [valid |-> TRUE, outcome |-> outcome, option |-> option,
                project_name |-> project_name, description |-> description,
                author |-> author, poetry |-> poetry, project_root |-> project_root,
                dirs |-> dirs, files |-> files]
    /\ start' = [dirs |-> dirs, files |-> files]
    /\ pc' = "menu"
    /\ option' = ""
    /\ project_name' = <<>>
    /\ description' = <<>>
    /\ author' = <<>>
    /\ poetry' = <<>>
    /\ project_root' = <<>>
    /\ idx' = 1
    /\ exitCode' = -1
    /\ outcome' = "running"
    /\ prompts' = <<>>
    /\ reported' = {}
    /\ answer' = <<>>
    /\ written' = {}
    /\ executed' = {}
    /\ UNCHANGED <<profile, osFamily, shellEnv, pyVersion, faultAt, fs, stdin, race, text>>

----------------------------------------------------------------------------
(* The hosts, filesystems and typed lines the runs start from.             *)

\* How many invalid lines the user types at the menu before a valid key.
MaxMenuRetries == 2

\* How many times the user starts the script again after the first run.
MaxReruns == 1

Blank == <<>>

Blanks(n) == [i \in 1..n |-> Blank]

GoodProfile == [pyenv |-> TRUE, poetry |-> TRUE, virtualenvs |-> "ok"]

\* What platform.python_version() can return.
PyVersions == {"3.10.12", "3.11.6", "3.12.1"}

DefaultPyVersion == "3.11.6"

OsFamilies == {"macos", "ubuntu", "linux", "windows", "wsl", "other"}

Bash == <<"/", "bin", "/", "bash">>

Zsh == <<"/", "bin", "/", "zsh">>

Fizsh == <<"/", "usr", "/", "bin", "/", "fizsh">>

\* Values of SHELL; <<>> is SHELL unset (os.environ.get("SHELL", "")).
Shells == {Bash, Zsh, Fizsh, <<"/", "usr", "/", "bin", "/", "fish">>,
           <<"/", "bin", "/", "zsh", " ">>, <<>>}

BaseDirs == {<<>>, <<"home">>, HOME}

NoFiles == [q \in {} |-> <<>>]

Bashrc == HOME \o <<".bashrc">>

Zshrc == HOME \o <<".zshrc">>

OldText == <<"old", "\n">>

\* A home directory with nothing in it.
FsBare == [dirs |-> BaseDirs, files |-> NoFiles]

\* The states of a target directory r a run can find.
FsEmpty(r) == [dirs |-> Mkdir(BaseDirs, r), files |-> NoFiles]

FsNotes(r) == [dirs |-> Mkdir(BaseDirs, r),
               files |-> PutFile(NoFiles, r \o <<"notes.txt">>, OldText)]

FsStale(r) ==
    [dirs |-> Mkdir(BaseDirs, r \o <<"app">>) \cup {r \o <<"docs">>},
     files |-> [p \in {r \o <<"README.md">>, r \o <<"requirements.txt">>,
                       r \o <<"pyproject.toml">>, r \o <<"app", "models.py">>,
                       r \o <<"docs", "notes.txt">>} |-> OldText]]

FsSubdir(r) == [dirs |-> Mkdir(BaseDirs, r \o <<"app">>), files |-> NoFiles]

FsIsFile(r) == [dirs |-> BaseDirs, files |-> PutFile(NoFiles, r, OldText)]

FsDirAtEntry(r) == [dirs |-> Mkdir(BaseDirs, r \o <<"README.md">>), files |-> NoFiles]

FsFileAtParent(r) == [dirs |-> Mkdir(BaseDirs, r),
                      files |-> PutFile(NoFiles, r \o <<"app">>, OldText)]

TargetStates(r) == {FsBare, FsEmpty(r), FsNotes(r), FsStale(r), FsSubdir(r),
                    FsIsFile(r), FsDirAtEntry(r), FsFileAtParent(r)}

\* The states of the shell startup files a run can find.
RcTexts == {<<>>, <<"x">>, <<"x", "\n">>, <<"x", "\n", "\n", "\n">>,
            <<"x", "\r", "\n">>, <<"x", "\n", " ", AliasKey, "y", "\n">>,
            <<AliasKey, "y">>}

RcStates ==
    {FsBare, [dirs |-> BaseDirs \cup {Bashrc}, files |-> NoFiles]}
    \cup {[dirs |-> BaseDirs, files |-> PutFile(NoFiles, Bashrc, c)] : c \in RcTexts}

\* The lines a user types.
MenuKeys == {<<"1">>, <<"2">>, <<"q">>, <<" ", "1", "\t">>}

InvalidMenuLines == {<<>>, <<"3">>, <<"Q">>, <<" ">>}

NameLines == {Blank, <<" ", "\t">>, <<"blog">>, <<" ", "blog", " ">>, <<".">>}

TextLines == {Blank, <<"My", " ", "text">>}

ConflictLines == {<<>>, <<" ">>, <<"y">>, <<"Y">>, <<" ", "YES", " ">>, <<"yes">>,
                  <<"n">>, <<"N">>, <<"no">>, <<"maybe">>, <<"abort">>}

\* The seven Poetry answers: all defaults, one field typed, all typed, or
\* nothing but a space at each.
PoetryRows ==
    {Blanks(7), [i \in 1..7 |-> <<"typed">>], [i \in 1..7 |-> <<" ">>]}
    \cup {[i \in 1..7 |-> IF i = k THEN <<"typed">> ELSE Blank] : k \in 1..7}

IsPoetryKey(menu) == Strip(menu) = <<"1">>

\* The lines of one run: the menu key, the base answers, the answer to the
\* conflict prompt when the run meets it, the Poetry answers.
RunLines(menu, name, desc, auth, conflict, row) ==
    <<menu, name, desc, auth>> \o conflict
    \o (IF IsPoetryKey(menu) THEN row ELSE <<>>)

DefaultLines(menu) == RunLines(menu, Blank, Blank, Blank, <<>>, Blanks(7))

\* Does a run with this name meet the conflict prompt on filesystem f?
Conflicts(f, name) ==
    LET root == JoinHome(prompt_with_default(name, DefaultProjectName))
    IN  IsDir(f.dirs, root) /\ HasEntries(f.dirs, f.files, root)

Scenario(pr, os, sh, fault, f, lines, runs) ==
    [profile |-> pr, osFamily |-> os, shellEnv |-> sh,
     pyVersion |-> DefaultPyVersion, faultAt |-> fault,
     dirs |-> f.dirs, files |-> f.files, stdin |-> lines, runsLeft |-> runs]

Plain(f, lines) == Scenario(GoodProfile, "linux", Bash, 0, f, lines, 0)

\* Every host profile, both workflows and quit.
PrereqScenarios ==
    {Scenario(pr, "linux", Bash, 0, FsBare, DefaultLines(m), 0) :
        pr \in Profiles, m \in {<<"1">>, <<"2">>, <<"q">>}}

\* Invalid lines at the menu, then a key.
RECURSIVE InvalidRuns(_)
InvalidRuns(n) ==
    IF n = 0 THEN {<<>>}
    ELSE InvalidRuns(n - 1)
         \cup {Append(s, l) : s \in {x \in InvalidRuns(n - 1) : Len(x) = n - 1},
                              l \in InvalidMenuLines}

MenuScenarios ==
    {Plain(FsBare, bad \o DefaultLines(m)) :
        bad \in InvalidRuns(MaxMenuRetries), m \in MenuKeys}

\* The answers to the parameter prompts.
ParamScenarios ==
    {Plain(FsBare, RunLines(m, n, d, a, <<>>, row)) :
        m \in {<<"1">>, <<"2">>}, n \in NameLines, d \in TextLines,
        a \in TextLines, row \in PoetryRows}

\* The states of the target directory and the answers to the conflict prompt.
ConflictScenarios ==
    {Plain(f, RunLines(m, <<"blog">>, Blank, Blank,
                       IF Conflicts(f, <<"blog">>) THEN <<c>> ELSE <<>>, Blanks(7))) :
        f \in TargetStates(HOME \o <<"blog">>), m \in {<<"1">>, <<"2">>},
        c \in ConflictLines}
    \cup
    {Plain(f, RunLines(m, <<".">>, Blank, Blank,
                       IF Conflicts(f, <<".">>) THEN <<c>> ELSE <<>>, Blanks(7))) :
        f \in RcStates, m \in {<<"1">>, <<"2">>}, c \in {<<"n">>, <<>>}}

\* The platform, the shell and the shell startup files of a Poetry run.
AliasScenarios ==
    {Scenario(GoodProfile, os, sh, 0, FsBare, DefaultLines(<<"1">>), 0) :
        os \in OsFamilies, sh \in Shells}
    \cup {Plain(f, DefaultLines(<<"1">>)) : f \in RcStates}

\* Project names that are paths: absolute, through the parent directory,
\* nested.
PathNames == {<<"/", "tmp", "/", "x">>, <<"..", "/", "x">>, <<"a", "/", "b">>}

PathNameScenarios ==
    {Plain(FsBare, RunLines(m, n, Blank, Blank, <<>>, Blanks(7))) :
        m \in {<<"1">>, <<"2">>}, n \in PathNames}

\* The interpreter and the platform the script runs on.
HostScenarios ==
    {[Scenario(GoodProfile, os, sh, 0, FsBare, DefaultLines(m), 0)
        EXCEPT !.pyVersion = v] :
        os \in {"linux", "macos"}, sh \in {Bash, <<"/", "bin", "/", "zsh">>},
        v \in PyVersions, m \in {<<"1">>, <<"2">>}}

\* A write that fails.
FaultScenarios ==
    {Scenario(GoodProfile, "linux", Bash, k, FsBare, DefaultLines(m), 0) :
        k \in 1..(NumEntries + 2), m \in {<<"1">>, <<"2">>}}

\* Input that ends early.
EofScenarios ==
    UNION {{Plain(FsBare, SubSeq(DefaultLines(m), 1, k)) :
                k \in 0..(Len(DefaultLines(m)) - 1)} : m \in {<<"1">>, <<"2">>}}

\* The script started again on what the last run left.
LaterRun(m, n, d, c) ==
    <<m, n, d, Blank, c>> \o (IF m = <<"1">> /\ c = <<"n">> THEN Blanks(7) ELSE <<>>)

RECURSIVE LaterRuns(_, _)
LaterRuns(n, k) ==
    IF k = 0 THEN {<<>>}
    ELSE {LaterRun(m, n, d, c) \o rest :
            m \in {<<"1">>, <<"2">>}, d \in TextLines, c \in {<<"n">>, <<"y">>},
            rest \in LaterRuns(n, k - 1)}

FirstRuns(n) ==
    {[fs |-> f, lines |-> RunLines(m, n, d, Blank,
                                   IF Conflicts(f, n) THEN <<<<"n">>>> ELSE <<>>,
                                   Blanks(7))] :
        f \in {FsBare}, m \in {<<"1">>, <<"2">>}, d \in {Blank}}

RerunsOf(n, k) ==
    {Scenario(GoodProfile, "linux", Bash, 0, first.fs, first.lines \o later, k) :
        first \in FirstRuns(n), later \in LaterRuns(n, k)}

RerunScenarios ==
    UNION {RerunsOf(n, k) : n \in {<<"blog">>, <<".">>}, k \in 1..MaxReruns}

\* Two Poetry runs into the same directory whose answers differ in one
\* Poetry prompt.
ManifestScenarios ==
    {Scenario(GoodProfile, "linux", Bash, 0, FsBare,
              DefaultLines(<<"1">>)
              \o RunLines(<<"1">>, Blank, Blank, Blank, <<<<"n">>>>,
                          [i \in 1..7 |-> IF i = k THEN <<"typed">> ELSE Blank]),
              1) : k \in 1..7}

Scenarios ==
    PrereqScenarios \cup MenuScenarios \cup ParamScenarios \cup ConflictScenarios
    \cup AliasScenarios \cup PathNameScenarios \cup HostScenarios \cup FaultScenarios \cup EofScenarios \cup RerunScenarios
    \cup ManifestScenarios

\* A fresh process: nothing asked, nothing written.
Fresh ==
    /\ pc = "menu"
    /\ option = ""
    /\ project_name = <<>>
    /\ description = <<>>
    /\ author = <<>>
    /\ poetry = <<>>
    /\ project_root = <<>>
    /\ idx = 1
    /\ exitCode = -1
    /\ outcome = "running"
    /\ prompts = <<>>
    /\ reported = {}
    /\ answer = <<>>
    /\ written = {}
    /\ executed = {}
    /\ aliasAt = <<>>
    /\ aliasContent = <<>>
    /\ appended = 0
    /\ text = <<>>

NoPrev == [valid |-> FALSE, outcome |-> "running", option |-> "",
           project_name |-> <<>>, description |-> <<>>, author |-> <<>>,
           poetry |-> <<>>, project_root |-> <<>>, dirs |-> {}, files |-> NoFiles]

StartIn(s) ==
    /\ profile = s.profile
    /\ osFamily = s.osFamily
    /\ shellEnv = s.shellEnv
    /\ pyVersion = s.pyVersion
    /\ faultAt = s.faultAt
    /\ dirs = s.dirs
    /\ files = s.files
    /\ stdin = s.stdin
    /\ runsLeft = s.runsLeft
    /\ start = [dirs |-> s.dirs, files |-> s.files]
    /\ prev = NoPrev
    /\ Fresh

Init == \E s \in Scenarios : StartIn(s)

Next ==
    \/ PromptChoice
    \/ EnsurePrereqs
    \/ AskProjectName
    \/ AskDescription
    \/ AskAuthor
    \/ EnsureProjectDir
    \/ WriteCatalogEntry
    \/ AskPoetry
    \/ WritePoetryFiles
    \/ EnsurePoetryAlias
    \/ WriteRequirements
    \/ EndOfInput
    \/ RunAgain

Spec == Init /\ [][Next]_vars


----------------------------------------------------------------------------
(* ensure_poetry_alias on its own: every short content of the shell        *)
(* startup file, and the function called any number of times.              *)

\* The longest startup file content tried.
MaxRcLen == 4

RcAlphabet == {"\n", "\r", " ", AliasKey, "x"}

RcContents == UNION {[1..k -> RcAlphabet] : k \in 0..MaxRcLen}

InitAlias ==
    /\ \E f \in {FsBare} \cup {[dirs |-> BaseDirs, files |-> PutFile(NoFiles, Bashrc, c)] :
                                c \in RcContents} :
          /\ dirs = f.dirs
          /\ files = f.files
          /\ start = f
    /\ profile = GoodProfile
    /\ osFamily = "linux"
    /\ shellEnv = Bash
    /\ pyVersion = DefaultPyVersion
    /\ faultAt = 0
    /\ stdin = <<>>
    /\ runsLeft = 0
    /\ prev = NoPrev
    /\ pc = "alias"
    /\ option = "1"
    /\ project_name = DefaultProjectName
    /\ description = DefaultDescription
    /\ author = DefaultAuthor
    /\ poetry = <<>>
    /\ project_root = HOME \o DefaultProjectName
    /\ idx = NumEntries + 1
    /\ exitCode = -1
    /\ outcome = "running"
    /\ prompts = <<>>
    /\ reported = {}
    /\ answer = <<>>
    /\ written = {}
    /\ executed = {}
    /\ aliasAt = <<>>
    /\ aliasContent = <<>>
    /\ appended = 0
    /\ text = <<>>

\* ensure_poetry_alias is executed once more.
AliasAgain ==
    /\ pc = "exited"
    /\ pc' = "alias"
    /\ exitCode' = -1
    /\ outcome' = "running"
    /\ written' = {}
    /\ prev' = [NoPrev EXCEPT !.valid = TRUE, !.outcome = outcome,
                              !.dirs = dirs, !.files = files]
    /\ UNCHANGED <<host, race, text, executed, fs, stdin, option, params, project_root, idx, prompts,
                   reported, answer, start>>

NextAlias ==
    \/ EnsurePoetryAlias
    \/ AliasAgain

SpecAlias == InitAlias /\ [][NextAlias]_vars

----------------------------------------------------------------------------
(* What the claims speak of.                                               *)

\* The tools a workflow requires.
Required(opt) ==
    IF opt = "1" THEN {"pyenv", "poetry"} ELSE {"pyenv", "pyenv-virtualenv"}

\* The tools a host has: on PATH, and for the plugin a working
\* `pyenv virtualenvs`.
Available(pr) ==
    (IF pr.pyenv THEN {"pyenv"} ELSE {})
    \cup (IF pr.poetry THEN {"poetry"} ELSE {})
    \cup (IF pr.virtualenvs = "ok" THEN {"pyenv-virtualenv"} ELSE {})

AbsentRequired(opt, pr) == Required(opt) \ Available(pr)

\* The run is past the prerequisite gate of a workflow.
PastGate == pc \notin {"menu", "prereqs"} /\ option \in {"1", "2"}

\* No prompt but the workflow menu has been issued.
OnlyMenuPrompts == \A i \in 1..Len(prompts) : prompts[i] = "menu"

\* The run has changed nothing on the filesystem.
NothingWritten == written = {} /\ dirs = start.dirs /\ files = start.files

\* The answers that choose to abort, and those that choose to continue.
AbortResponses == {<<>>, <<"y">>, <<"yes">>}

ContinueResponses == {<<"n">>, <<"no">>}

\* The target was absent or an empty directory when the run started.
StartedAbsentOrEmpty ==
    \/ ~PathExists(start.dirs, start.files, project_root)
    \/ /\ IsDir(start.dirs, project_root)
       /\ ~HasEntries(start.dirs, start.files, project_root)

\* The catalog's paths for a workflow, relative to the target.
ExpectedPaths(opt) ==
    CatalogPaths \cup (IF opt = "1" THEN {PyprojectPath} ELSE {RequirementsPath})

\* The directories the catalog's paths lie in, relative to the target.
ExpectedDirs(opt) ==
    UNION {{SubSeq(rel, 1, k) : k \in 1..(Len(rel) - 1)} : rel \in ExpectedPaths(opt)}

\* The files and the directories below a directory.
FilesBelow(f, root) == {p \in DOMAIN f : Len(p) > Len(root) /\ StartsWith(p, root)}

DirsBelow(d, root) == {p \in d : Len(p) > Len(root) /\ StartsWith(p, root)}

Under(root, rels) == {root \o rel : rel \in rels}

\* The content a fresh rendering of a path gives with the run's parameters.
FreshContent(rel) ==
    IF rel = PyprojectPath THEN WriteTextBytes(RenderPyproject(PoetryRecord(poetry)))
    ELSE IF rel = RequirementsPath THEN WriteTextBytes(RenderRequirements)
    ELSE LET i == CHOOSE j \in 1..NumEntries : Catalog[j].rel = rel
         IN  WriteTextBytes(Render(Catalog[i], project_name, description, author,
                                   pyVersion))

\* The startup file the alias step of this host uses, and its text on disk.
RcOf == RcPath(osFamily, shellEnv)

DiskText(f) == IF IsFile(f, RcOf) THEN f[RcOf] ELSE <<>>

\* The lines of a text (ended by "\n") that begin with the alias key.
KeyLines(c) == {i \in 1..Len(c) : c[i] = AliasKey /\ (i = 1 \/ c[i - 1] = "\n")}

\* The number of lines of a text: its "\n"s, and a last line without one.
NumLines(c) ==
    Cardinality({i \in 1..Len(c) : c[i] = "\n"})
    + (IF c # <<>> /\ c[Len(c)] # "\n" THEN 1 ELSE 0)


----------------------------------------------------------------------------
(* The claims.                                                             *)

\* C1: at the conflict prompt every answer that is not an explicit choice to
\* continue (n, no) aborts the run with exit code 1; the run goes on into a
\* non-empty directory only after such a choice.
C1_OnlyExplicitContinueProceeds ==
    (answer # <<>> /\ answer[1] \notin ContinueResponses)
        => (pc = "exited" /\ outcome = "conflict" /\ exitCode = 1)

\* C2: when the target exists and is non-empty and the user answers the
\* conflict prompt with an abort response, the run writes nothing and exits
\* with the conflict outcome, exit code 1.
C2_AbortWritesNothing ==
    (answer # <<>> /\ answer[1] \in AbortResponses)
        => /\ pc = "exited"
           /\ outcome = "conflict"
           /\ exitCode = 1
           /\ NothingWritten

C2_Witness ==
    /\ answer # <<>> /\ answer[1] \in AbortResponses
    /\ outcome = "conflict"
    /\ HasEntries(dirs, files, project_root)

\* C3: if a required tool of the chosen workflow is absent, the run exits
\* with code 1 before any parameter prompt and before any write, under the
\* target or to a shell startup file.
C3_MissingToolExitsBeforeAnything ==
    (PastGate /\ AbsentRequired(option, profile) # {})
        => /\ pc = "exited"
           /\ outcome = "prereq"
           /\ exitCode = 1
           /\ OnlyMenuPrompts
           /\ NothingWritten

C3_Witness ==
    /\ PastGate
    /\ option = "1"
    /\ "poetry" \in AbsentRequired(option, profile)
    /\ "pyenv" \notin AbsentRequired(option, profile)
    /\ pc = "exited"

\* C4: validation fails if and only if the host lacks at least one of the
\* workflow's required tools, and hosts that agree on the required tools get
\* the same verdict.
C4_FailsIffRequiredToolAbsent ==
    /\ PastGate => ((outcome = "prereq") <=> (AbsentRequired(option, profile) # {}))
    /\ \A w \in {"1", "2"} : \A p1, p2 \in Profiles :
          (Available(p1) \cap Required(w) = Available(p2) \cap Required(w))
              => (ensure_prereqs(w, p1) <=> ensure_prereqs(w, p2))

C4_Witness ==
    /\ PastGate
    /\ option = "2"
    /\ ~profile.poetry
    /\ AbsentRequired(option, profile) = {}
    /\ pc = "ask_name"

\* C5: when validation fails, the tools reported as missing are exactly the
\* required tools the host lacks.
C5_ReportsExactlyTheAbsentTools ==
    (PastGate /\ outcome = "prereq") => reported = AbsentRequired(option, profile)

C5_Witness ==
    /\ PastGate
    /\ outcome = "prereq"
    /\ option = "2"
    /\ ~profile.pyenv
    /\ reported = {"pyenv", "pyenv-virtualenv"}

\* C6 as stated: from an absent or empty target, a completed run leaves
\* under the target exactly the catalog's paths for the workflow, and exits
\* with code 0.
C6_ExactlyTheCatalog ==
    (outcome = "done" /\ StartedAbsentOrEmpty)
        => /\ exitCode = 0
           /\ FilesBelow(files, project_root)
                  = Under(project_root, ExpectedPaths(option))
           /\ DirsBelow(dirs, project_root)
                  = Under(project_root, ExpectedDirs(option))

\* C6, amended: ... exactly the catalog's paths for the workflow and, when
\* the shell startup file of the alias step lies under the target (the
\* target is the home directory) in a PoetryManaged run, that file too.
C6_ExactlyTheCatalogAndAlias ==
    (outcome = "done" /\ StartedAbsentOrEmpty)
        => /\ exitCode = 0
           /\ FilesBelow(files, project_root)
                  = Under(project_root, ExpectedPaths(option))
                    \cup (IF option = "1" /\ StartsWith(RcOf, project_root)
                          THEN {RcOf} ELSE {})
           /\ DirsBelow(dirs, project_root)
                  = Under(project_root, ExpectedDirs(option))

C6_Witness ==
    /\ outcome = "done"
    /\ StartedAbsentOrEmpty
    /\ option = "1"
    /\ project_root = HOME
    /\ RcOf \in FilesBelow(files, project_root)

\* C7: a second run on the output of a completed first run, with the same
\* workflow and parameters and the choice to continue, leaves the same paths
\* under the target, each with the same content.
SameInputsAsBefore ==
    /\ option = prev.option
    /\ project_name = prev.project_name
    /\ description = prev.description
    /\ author = prev.author
    /\ poetry = prev.poetry

C7_RescaffoldIsIdempotent ==
    (prev.valid /\ prev.outcome = "done" /\ outcome = "done" /\ SameInputsAsBefore)
        => /\ FilesBelow(files, project_root) = FilesBelow(prev.files, project_root)
           /\ DirsBelow(dirs, project_root) = DirsBelow(prev.dirs, project_root)
           /\ \A p \in FilesBelow(files, project_root) : files[p] = prev.files[p]

C7_Witness ==
    /\ prev.valid /\ prev.outcome = "done" /\ outcome = "done"
    /\ SameInputsAsBefore
    /\ option = "1"
    /\ answer = <<<<"n">>>>

\* C8: after the choice to continue into a non-empty target, a completed
\* run leaves at every catalog path the freshly rendered content, whatever
\* was there before.
C8_EveryEntryRewritten ==
    (outcome = "done" /\ answer # <<>>)
        => \A rel \in ExpectedPaths(option) :
              /\ IsFile(files, project_root \o rel)
              /\ files[project_root \o rel] = FreshContent(rel)

C8_Witness ==
    /\ outcome = "done"
    /\ answer # <<>>
    /\ \E rel \in CatalogPaths :
          /\ IsFile(start.files, project_root \o rel)
          /\ start.files[project_root \o rel] # files[project_root \o rel]

\* C9: from a startup file with at most one line beginning with the alias
\* key, any number of executions of ensure_poetry_alias leave at most one
\* such line; when there is one already, nothing is appended.
C9_AtMostOneAliasLine ==
    /\ Cardinality(KeyLines(DiskText(start.files))) <= 1
          => Cardinality(KeyLines(DiskText(files))) <= 1
    /\ Cardinality(KeyLines(DiskText(start.files))) >= 1 => files = start.files

C9_Witness ==
    /\ prev.valid
    /\ pc = "exited"
    /\ outcome = "done"
    /\ Cardinality(KeyLines(DiskText(start.files))) = 0
    /\ IsFile(start.files, RcOf)
    /\ Cardinality(KeyLines(DiskText(files))) = 1

\* C10: when the alias is appended the previous content of the startup file
\* is a prefix of the new content, which has exactly one line more; when the
\* step skips, the file is unchanged.
C10_AppendKeepsContent ==
    (pc = "exited" /\ outcome = "done" /\ option = "1")
        => /\ StartsWith(DiskText(files), DiskText(start.files))
           /\ \/ /\ IsFile(files, RcOf) <=> IsFile(start.files, RcOf)
                 /\ DiskText(files) = DiskText(start.files)
              \/ NumLines(DiskText(files)) = NumLines(DiskText(start.files)) + 1

\* The alias step cannot do its work on this host: the startup file is a
\* directory (it cannot be read), or the host refuses the write.
AliasStepFails ==
    \/ IsDir(dirs, RcOf)
    \/ faultAt = NumEntries + 2

\* C11: a failure of the alias-append step is not fatal: the run still ends
\* on the success path with exit code 0.
C11_AliasFailureIsNotFatal ==
    [][(pc = "alias" /\ AliasStepFails) => (exitCode' = 0 /\ outcome' = "done")]_vars

\* The write_text call the scaffold is about to make cannot succeed: a
\* component of the parent is a file, the path is a directory, or the host
\* refuses this write.
NextWritePath == project_root \o Catalog[idx].rel

NextWriteFails ==
    \/ \E k \in 1..(Len(NextWritePath) - 1) : IsFile(files, SubSeq(NextWritePath, 1, k))
    \/ IsDir(dirs, NextWritePath)
    \/ faultAt = idx

\* The catalog paths before, and from, position i of the catalog.
EntriesBefore(i) == {project_root \o Catalog[j].rel : j \in 1..(i - 1)}

EntriesFrom(i) == {project_root \o Catalog[j].rel : j \in i..NumEntries}

\* The manifest of either workflow, under the target.
ManifestPaths == {project_root \o PyprojectPath, project_root \o RequirementsPath}

\* C12: a failing directory creation or file write for a catalog entry ends
\* the run without success (exit code not 0); the entries written before it
\* stay on disk unchanged, the failing entry and the later ones are not
\* written, the manifest and the alias are not written, and the ended run
\* changes nothing any more.
C12_WriteFailureIsFatalAndKept ==
    /\ [][(pc = "scaffold" /\ NextWriteFails)
            => /\ pc' = "exited"
               /\ exitCode' # 0
               /\ outcome' # "done"
               /\ files' = files
               /\ \A p \in EntriesBefore(idx) : IsFile(files', p) /\ p \in written']_vars
    /\ []((pc = "exited" /\ outcome = "crash" /\ idx <= NumEntries)
            => /\ written \cap (EntriesFrom(idx + 1) \cup ManifestPaths \cup {RcOf}) = {}
               /\ \A p \in EntriesBefore(idx) :
                     \E j \in 1..NumEntries :
                        /\ p = project_root \o Catalog[j].rel
                        /\ files[p] = FreshContent(Catalog[j].rel))
    /\ [][pc = "exited" => (dirs' = dirs /\ files' = files)]_vars

C12_Witness ==
    /\ pc = "exited"
    /\ outcome = "crash"
    /\ exitCode = 1
    /\ faultAt = idx
    /\ idx > 1
    /\ idx <= NumEntries
    /\ EntriesBefore(idx) \subseteq written

\* How a run can end: the whole scaffold of the workflow was written, a
\* required tool is absent, the user chose to abort at the conflict prompt,
\* the user chose quit at the menu.
ScaffoldCompleted ==
    /\ option \in {"1", "2"}
    /\ project_root # <<>>
    /\ Under(project_root, ExpectedPaths(option)) \subseteq written

PrereqFailed == option \in {"1", "2"} /\ AbsentRequired(option, profile) # {}

ConflictAborted == answer # <<>> /\ answer[1] \in AbortResponses

QuitChosen == option = "q"

\* C13: of the runs that end through the program's own paths (no uncaught
\* exception), exactly the completed scaffolds and the quits exit with code 0
\* and exactly the prerequisite failures and the conflict aborts exit with
\* code 1; a quit ends the run at the menu, before any prerequisite check,
\* further prompt or write.
C13_ExitCodeMapping ==
    /\ (pc = "exited" /\ outcome # "crash")
          => /\ exitCode \in {0, 1}
             /\ exitCode = 0 <=> (ScaffoldCompleted \/ QuitChosen)
             /\ exitCode = 1 <=> (PrereqFailed \/ ConflictAborted)
    /\ QuitChosen
          => /\ pc = "exited"
             /\ exitCode = 0
             /\ reported = {}
             /\ OnlyMenuPrompts
             /\ project_name = <<>>
             /\ NothingWritten

C13_Witness ==
    /\ QuitChosen
    /\ pc = "exited"
    /\ AbsentRequired("1", profile) # {}
    /\ AbsentRequired("2", profile) # {}
    /\ stdin # <<>>

\* The keys of the workflow menu.
MenuKeySet == {"1", "2", "q"}

\* The line typed at the menu, trimmed, is one of the menu's keys.
TypesKey(line) == \E k \in MenuKeySet : Strip(line) = <<k>>

\* C14: at the menu a line that is not a key after trimming is rejected and
\* the menu is shown again; the first line that is a key is returned, trimmed;
\* the run is past the menu only with a key as its option.
C14_MenuReturnsOnlyKeys ==
    /\ [][(pc = "menu" /\ stdin # <<>>)
            => /\ prompts' = Append(prompts, "menu")
               /\ stdin' = Tail(stdin)
               /\ IF TypesKey(Head(stdin))
                  THEN <<option'>> = Strip(Head(stdin)) /\ pc' # "menu"
                  ELSE option' = option /\ pc' = "menu"]_vars
    /\ [](option \in MenuKeySet \cup {""})
    /\ [](option = "" => (pc = "menu" \/ (pc = "exited" /\ outcome = "crash")))
    /\ [](option = "" => (OnlyMenuPrompts /\ NothingWritten /\ reported = {}))

C14_Witness ==
    /\ Len(prompts) >= 3
    /\ prompts[1] = "menu" /\ prompts[2] = "menu" /\ prompts[3] = "menu"
    /\ option = "1"
    /\ pc = "ask_name"

\* What a free-text prompt is to return for a typed line and a default.
TypedOrDefault(line, default) ==
    IF \A i \in 1..Len(line) : line[i] \in Whitespace THEN default ELSE Strip(line)

\* The literal defaults of main's prompts.
LiteralDefaults ==
    {DefaultProjectName, DefaultDescription, DefaultAuthor, DefaultVersion,
     DefaultEmail, DefaultLicense, DefaultPython}

\* C15: every free-text prompt returns its default for an empty or blank
\* line and the trimmed line otherwise; the defaults are non-empty, so every
\* collected parameter is non-empty.
C15_EveryParameterNonEmpty ==
    /\ [](\A d \in LiteralDefaults : d # <<>>)
    /\ [][(pc = "ask_name" /\ stdin # <<>>)
            => /\ project_name' = TypedOrDefault(Head(stdin), DefaultProjectName)
               /\ project_name' # <<>>]_vars
    /\ [][(pc = "ask_description" /\ stdin # <<>>)
            => /\ description' = TypedOrDefault(Head(stdin), DefaultDescription)
               /\ description' # <<>>]_vars
    /\ [][(pc = "ask_author" /\ stdin # <<>>)
            => /\ author' = TypedOrDefault(Head(stdin), DefaultAuthor)
               /\ author' # <<>>]_vars
    /\ [][(pc = "ask_poetry" /\ stdin # <<>>)
            => /\ Len(poetry') = Len(poetry) + 1
               /\ poetry'[Len(poetry')]
                     = TypedOrDefault(Head(stdin), PoetryDefault(PoetryFields[Len(poetry')]))
               /\ poetry'[Len(poetry')] # <<>>]_vars
    /\ []((pc \in {"scaffold", "ask_poetry", "write_pyproject", "alias",
                   "write_requirements"} \/ outcome = "done")
            => /\ project_name # <<>> /\ description # <<>> /\ author # <<>>
               /\ \A i \in 1..Len(poetry) : poetry[i] # <<>>)

C15_Witness ==
    /\ outcome = "done"
    /\ option = "1"
    /\ project_name = DefaultProjectName
    /\ description = <<"My", " ", "text">>
    /\ Len(poetry) = 7
    /\ poetry[1] = project_name
    /\ poetry[3] = description
    /\ poetry[5] = DefaultEmail
    /\ "project_name" \in {prompts[i] : i \in 1..Len(prompts)}
    /\ IsFile(files, project_root \o PyprojectPath)

\* The catalog entries this run has written so far.
EntriesWritten == 1..(IF idx > NumEntries THEN NumEntries ELSE idx - 1)

\* The bytes of a catalog entry as a function of the collected parameters,
\* on a host whose interpreter reports version v.
ContentOn(v, j) ==
    WriteTextBytes(Render(Catalog[j], project_name, description, author, v))

\* C16: what a run writes at a catalog path is determined by the workflow
\* and the collected parameters alone: it is what any host, whatever its
\* interpreter version, platform or shell, writes for these parameters; the
\* LICENSE in particular does not depend on the interpreter version.
C16_ContentDependsOnParametersOnly ==
    /\ \A v \in PyVersions : \A j \in EntriesWritten :
          files[project_root \o Catalog[j].rel] = ContentOn(v, j)
    /\ (outcome = "done" /\ option = "1")
          => files[project_root \o PyprojectPath]
                = WriteTextBytes(RenderPyproject(PoetryRecord(poetry)))
    /\ (outcome = "done" /\ option = "2")
          => files[project_root \o RequirementsPath] = WriteTextBytes(RenderRequirements)

C16_Witness ==
    /\ outcome = "done"
    /\ pyVersion = "3.12.1"
    /\ osFamily = "macos"
    /\ shellEnv # Bash
    /\ option = "1"
    /\ IsFile(files, project_root \o <<"LICENSE">>)
    /\ project_root \o <<"LICENSE">> \in written

\* The files this run has written under the target.
ScaffoldFilesWritten ==
    {p \in written : IsFile(files, p) /\ p # RcOf /\ StartsWith(p, project_root)}

\* Every parameter prompt of the workflow has been answered.
CollectionComplete ==
    /\ project_name # <<>> /\ description # <<>> /\ author # <<>>
    /\ option = "1" => Len(poetry) = Len(PoetryFields)

\* C17: no file is written under the target before every parameter prompt
\* of the workflow, the extended Poetry fields included, has been answered.
C17_CollectionBeforeMaterialization ==
    ScaffoldFilesWritten # {} => CollectionComplete

\* <home>/<project_name>, component by component.
HomeSlashName == HOME \o Components(project_name)

\* A write_text call wrote its file and still raised: the run ended with the
\* entry at idx on disk and not counted as done.
ReportFailedAWrite ==
    /\ pc = "exited"
    /\ outcome = "crash"
    /\ idx <= NumEntries
    /\ project_root \o Catalog[idx].rel \in written

\* C18: for every project name the target is <home>/<project_name>, every
\* file written for the scaffold lies inside it, and the progress report
\* relative to the home directory never makes a write_text call fail.
C18_TargetIsUnderHome ==
    project_root # <<>>
        => /\ project_root = HomeSlashName
           /\ \A p \in written \ {RcOf} : IsFile(files, p) => StartsWith(p, HomeSlashName)
           /\ ~ReportFailedAWrite

\* The target the run is about to resolve, and what the run found there.
TargetToResolve == JoinHome(project_name)

ChildrenAtStart(root) ==
    {q \in start.dirs \cup DOMAIN start.files :
        Len(q) = Len(root) + 1 /\ SubSeq(q, 1, Len(root)) = root}

AbsentAtStart(root) == root \notin start.dirs /\ root \notin DOMAIN start.files

EmptyDirAtStart(root) == root \in start.dirs /\ ChildrenAtStart(root) = {}

NonEmptyDirAtStart(root) == root \in start.dirs /\ ChildrenAtStart(root) # {}

ConflictPrompts == {i \in 1..Len(prompts) : prompts[i] = "conflict"}

\* C19: an absent target is created with its ancestors and the run goes on;
\* an empty one is used as it is; neither asks the conflict question.  The
\* question is asked once, and only for a non-empty target.  No file is
\* written before the target is resolved, and when the scaffold starts the
\* target is a directory.
C19_DirectoryResolution ==
    /\ [][(pc = "ensure_dir" /\ AbsentAtStart(TargetToResolve))
            => /\ pc' = "scaffold"
               /\ project_root' = TargetToResolve
               /\ \A k \in 0..Len(TargetToResolve) :
                     SubSeq(TargetToResolve, 1, k) \in dirs'
               /\ files' = files
               /\ prompts' = prompts]_vars
    /\ [][(pc = "ensure_dir" /\ EmptyDirAtStart(TargetToResolve))
            => /\ pc' = "scaffold"
               /\ project_root' = TargetToResolve
               /\ dirs' = dirs /\ files' = files
               /\ prompts' = prompts]_vars
    /\ [][(pc = "ensure_dir" /\ NonEmptyDirAtStart(TargetToResolve))
            => prompts' = Append(prompts, "conflict")]_vars
    /\ [](Cardinality(ConflictPrompts) <= 1)
    /\ [](ConflictPrompts # {} => NonEmptyDirAtStart(project_root))
    /\ [](pc \in {"menu", "prereqs", "ask_name", "ask_description", "ask_author",
                  "ensure_dir"} => (written = {} /\ files = start.files))
    /\ []((pc = "scaffold" /\ idx = 1) => project_root \in dirs)

C19_Witness ==
    /\ pc = "scaffold"
    /\ idx = 1
    /\ AbsentAtStart(project_root)
    /\ Len(project_root) = Len(HOME) + 2
    /\ project_root \in dirs
    /\ Parent(project_root) \in dirs \ start.dirs
    /\ ConflictPrompts = {}

\* The free-text prompts: the base three, and the extended Poetry set.
BaseFields == <<"project_name", "description", "author">>

ExtendedFields == <<"poetry_name", "poetry_version", "poetry_description",
                    "author_name", "author_email", "license_id", "requires_python">>

FieldsOf(opt) == BaseFields \o (IF opt = "1" THEN ExtendedFields ELSE <<>>)

IsFreeText(p) == p \notin {"menu", "conflict"}

\* The free-text prompts this run has issued, in order.
FreeTextPrompts == SelectSeq(prompts, IsFreeText)

\* C20: the free-text prompts a run issues are those of its workflow, each
\* once and in order: the base three for RequirementsFileManaged, the base
\* three and the seven extended fields for PoetryManaged; a completed run
\* has issued all of them.
C20_FieldSetFollowsWorkflow ==
    /\ option \notin {"1", "2"} => FreeTextPrompts = <<>>
    /\ option \in {"1", "2"}
          => /\ Len(FreeTextPrompts) <= Len(FieldsOf(option))
             /\ FreeTextPrompts = SubSeq(FieldsOf(option), 1, Len(FreeTextPrompts))
    /\ outcome = "done" => FreeTextPrompts = FieldsOf(option)

C20_Witness ==
    /\ outcome = "done"
    /\ option = "2"
    /\ FreeTextPrompts = BaseFields
    /\ "conflict" \in {prompts[i] : i \in 1..Len(prompts)}
    /\ prev.valid /\ prev.option = "1" /\ prev.outcome = "done"

-----------------------------------------------------------------------------
(* write_text on its own: one call with an arbitrary content, then a call  *)
(* with the content read back from the file.                               *)

MaxContentLen == 4

ContentAlphabet == {"\n", "\r", " ", "x"}

Contents == UNION {[1..k -> ContentAlphabet] : k \in 0..MaxContentLen}

OutPath == HOME \o <<"out.txt">>

InitWrite ==
    /\ text \in Contents
    /\ dirs = BaseDirs
    /\ files = NoFiles
    /\ start = FsBare
    /\ profile = GoodProfile
    /\ osFamily = "linux"
    /\ shellEnv = Bash
    /\ pyVersion = DefaultPyVersion
    /\ faultAt = 0
    /\ stdin = <<>>
    /\ runsLeft = 0
    /\ prev = NoPrev
    /\ pc = "write_text"
    /\ option = ""
    /\ project_name = <<>>
    /\ description = <<>>
    /\ author = <<>>
    /\ poetry = <<>>
    /\ project_root = HOME
    /\ idx = 1
    /\ exitCode = -1
    /\ outcome = "running"
    /\ prompts = <<>>
    /\ reported = {}
    /\ answer = <<>>
    /\ written = {}
    /\ executed = {}
    /\ aliasAt = <<>>
    /\ aliasContent = <<>>
    /\ appended = 0

\* write_text(OutPath, text)
WriteText ==
    /\ pc = "write_text"
    /\ LET r == write_text(dirs, files, OutPath, text, idx)
       IN  /\ dirs' = r.dirs
           /\ files' = r.files
           /\ written' = written \cup PathsTouched(dirs, r, OutPath)
    /\ pc' = "written"
    /\ UNCHANGED <<host, race, text, executed, stdin, option, params, project_root, idx,
                   exitCode, outcome, prompts, reported, answer, snapshots>>

\* write_text(OutPath, c) with c the text write_text left in the file.
WriteTextAgain ==
    /\ pc = "written"
    /\ text' = files[OutPath]
    /\ LET r == write_text(dirs, files, OutPath, files[OutPath], idx)
       IN  /\ dirs' = r.dirs
           /\ files' = r.files
           /\ written' = written \cup PathsTouched(dirs, r, OutPath)
    /\ pc' = "rewritten"
    /\ UNCHANGED <<host, race, executed, stdin, option, params, project_root, idx,
                   exitCode, outcome, prompts, reported, answer, snapshots>>

NextWrite ==
    \/ WriteText
    \/ WriteTextAgain

SpecWrite == InitWrite /\ [][NextWrite]_vars

\* s consists of newline characters only.
OnlyNewlines(s) == \A i \in 1..Len(s) : s[i] = "\n"

\* C21: whatever content write_text is called with, the text it writes ends
\* with exactly one newline, the part before that newline is the content
\* without its trailing newlines (a prefix of the content followed in the
\* content by newlines only), and writing the written text again leaves the
\* same text in the file.
C21_TrailingNewlineNormalized ==
    pc \in {"written", "rewritten"} =>
        /\ IsFile(files, OutPath)
        /\ LET out  == files[OutPath]
               body == SubSeq(out, 1, Len(out) - 1)
           IN  /\ Len(out) >= 1
               /\ out[Len(out)] = "\n"
               /\ body = <<>> \/ body[Len(body)] # "\n"
               /\ Len(body) <= Len(text)
               /\ body = SubSeq(text, 1, Len(body))
               /\ OnlyNewlines(SubSeq(text, Len(body) + 1, Len(text)))
               /\ pc = "rewritten" => out = text

\* A content ending in several newlines has been written.
C21_Witness ==
    /\ pc = "written"
    /\ text = <<"x", "\n", "\n", "\n">>
    /\ IsFile(files, OutPath)
    /\ files[OutPath] = <<"x", "\n">>

\* The one external command the validation can execute.
PluginCommand == <<"pyenv", "virtualenvs">>

\* C22: `pyenv virtualenvs` is the only command a run executes, it is
\* executed by the validation and only on a host that has pyenv; on a host
\* without pyenv the run executes no command at all, and the validation
\* fails, for the second workflow with the plugin reported as missing.
C22_PluginCheckShortCircuits ==
    /\ executed \subseteq {PluginCommand}
    /\ executed # {} => check_pyenv(profile) /\ PastGate
    /\ (PastGate /\ check_pyenv(profile)) => executed = {PluginCommand}
    /\ ~check_pyenv(profile)
          => /\ executed = {}
             /\ ~check_pyenv_virtualenv(profile)
             /\ PastGate => /\ outcome = "prereq"
                            /\ "pyenv" \in reported
                            /\ option = "2" => "pyenv-virtualenv" \in reported

\* The second workflow has been validated on a host without pyenv.
C22_Witness ==
    /\ ~check_pyenv(profile)
    /\ option = "2"
    /\ outcome = "prereq"
    /\ executed = {}
    /\ "pyenv-virtualenv" \in reported

\* The ways a tool lookup comes back empty-handed on this host: the tool is
\* not on PATH, or `pyenv virtualenvs` cannot be started or exits non-zero.
LookupFailures(pr) ==
    (IF ~pr.pyenv THEN {"pyenv"} ELSE {})
    \cup (IF ~pr.poetry THEN {"poetry"} ELSE {})
    \cup (IF pr.virtualenvs \in {"oserror", "nonzero"}
          THEN {"pyenv-virtualenv"} ELSE {})

\* C23: the validation step always ends in a verdict: either the run goes
\* on to the first prompt, and then no tool the workflow requires had a
\* failed lookup, or it ends with exit code 1 through the prerequisite
\* failure, and then every required tool whose lookup failed (not on PATH,
\* plugin command not startable, plugin command exiting non-zero) is
\* reported as missing; it never ends in an unhandled error.
C23_LookupFailureIsAVerdict ==
    [][pc = "prereqs" =>
         LET failed == Required(option) \cap LookupFailures(profile)
         IN  /\ outcome' # "crash"
             /\ \/ /\ failed = {}
                   /\ pc' = "ask_name"
                   /\ outcome' = "running"
                   /\ reported' = {}
                \/ /\ failed # {}
                   /\ pc' = "exited"
                   /\ outcome' = "prereq"
                   /\ exitCode' = 1
                   /\ reported' = failed]_vars

\* The second workflow was refused on a host whose pyenv is on PATH and
\* whose `pyenv virtualenvs` could not be executed.
C23_Witness ==
    /\ option = "2"
    /\ check_pyenv(profile)
    /\ profile.virtualenvs = "oserror"
    /\ executed = {PluginCommand}
    /\ outcome = "prereq"
    /\ exitCode = 1

\* The two shell startup files the alias step chooses between.
StartupFiles == {HOME \o <<".zshrc">>, HOME \o <<".bashrc">>}

\* The path is not the project directory and not inside it.
OutsideProject(p) == project_root = <<>> \/ ~StartsWith(p, project_root)

\* The files outside the project directory that this run created, removed or
\* changed.
FilesChangedOutside ==
    {p \in DOMAIN files \cup DOMAIN start.files :
        /\ OutsideProject(p)
        /\ \/ p \notin DOMAIN files
           \/ p \notin DOMAIN start.files
           \/ files[p] # start.files[p]}

\* C24: the files a run changes outside the project directory are at most
\* one, the shell startup file of the host, and only in a run of the Poetry
\* workflow that has written pyproject.toml and is over; a run of the
\* requirements workflow never reaches the alias step, which is the only
\* step that reads or writes a startup file, and changes no file outside the
\* project directory; no run changes both startup files.
C24_OnlyTheAliasOutsideTheProject ==
    /\ FilesChangedOutside \subseteq {RcOf}
    /\ Cardinality(FilesChangedOutside) <= 1
    /\ FilesChangedOutside # {}
          => /\ option = "1"
             /\ pc = "exited"
             /\ outcome = "done"
             /\ project_root \o PyprojectPath \in written
             /\ IsFile(files, project_root \o PyprojectPath)
    /\ option = "2" => pc # "alias" /\ FilesChangedOutside = {}
    /\ \A p \in StartupFiles \ {RcOf} :
          OutsideProject(p) =>
              /\ p \notin written
              /\ p \in DOMAIN files <=> p \in DOMAIN start.files
              /\ p \in DOMAIN files => files[p] = start.files[p]

\* A Poetry run on a zsh host has changed ~/.zshrc, outside its project
\* directory, while ~/.bashrc was there too.
C24_Witness ==
    /\ option = "1"
    /\ outcome = "done"
    /\ RcOf = HOME \o <<".zshrc">>
    /\ FilesChangedOutside = {RcOf}
    /\ OutsideProject(RcOf)

\* The platforms on which ensure_poetry_alias looks at SHELL.
UnixFamilies == {"macos", "ubuntu", "wsl", "linux"}

\* The startup file the claim names for this host: ~/.zshrc when the OS
\* family is a Unix one and SHELL ends with "zsh", else ~/.bashrc.
StartupFileFor(os, shell) ==
    IF os \in UnixFamilies /\ shell \in {Zsh, Fizsh}
    THEN HOME \o <<".zshrc">> ELSE HOME \o <<".bashrc">>

\* C25: when the alias step ends, the alias is in ~/.zshrc if the OS family
\* is one of macos, ubuntu, wsl, linux and SHELL ends with "zsh", and in
\* ~/.bashrc in every other case (another shell, SHELL unset, windows or
\* another family); the other startup file is as it was.
C25_StartupFileSelection ==
    [][(pc = "alias" /\ outcome' = "done") =>
          LET rc    == StartupFileFor(osFamily, shellEnv)
              other == CHOOSE p \in StartupFiles : p # rc
          IN  /\ IsFile(files', rc)
              /\ AliasPresent(RcContent(files', rc))
              /\ written' \cap StartupFiles \subseteq {rc}
              /\ IsFile(files', other) <=> IsFile(files, other)
              /\ IsFile(files, other) => files'[other] = files[other]]_vars

\* On windows with SHELL ending in "zsh" the alias has gone to ~/.bashrc.
C25_Witness ==
    /\ osFamily = "windows"
    /\ shellEnv = Zsh
    /\ outcome = "done"
    /\ option = "1"
    /\ HOME \o <<".bashrc">> \in written
    /\ ~IsFile(files, HOME \o <<".zshrc">>)

\* The Poetry prompts whose answers differ between the previous run and
\* this one.
FieldsChanged == {i \in 1..Len(PoetryFields) : poetry[i] # prev.poetry[i]}

\* This run and the one before both completed the Poetry workflow in the
\* same directory.
TwoPoetryRuns ==
    /\ prev.valid
    /\ prev.outcome = "done" /\ outcome = "done"
    /\ prev.option = "1" /\ option = "1"
    /\ prev.project_root = project_root

\* C26: two completed Poetry runs whose extended parameters differ in one
\* value (package name, version, description, author name, author email,
\* license id or Python constraint) leave different pyproject.toml contents.
C26_EveryFieldDeterminesManifest ==
    (TwoPoetryRuns /\ Cardinality(FieldsChanged) = 1)
        => files[project_root \o PyprojectPath]
              # prev.files[project_root \o PyprojectPath]

\* The run met the conflict prompt and went on into the target.
ContinuedIntoTarget == answer # <<>> /\ outcome # "conflict"

\* The files that were under the target when the run started and whose path
\* is not one the catalog of this run's workflow writes.
ForeignFiles ==
    FilesBelow(start.files, project_root)
        \ Under(project_root, ExpectedPaths(option))

KeptAsItWas(p) == IsFile(files, p) /\ files[p] = start.files[p]

ManifestOf(opt) == IF opt = "1" THEN PyprojectPath ELSE RequirementsPath

\* The target holds the manifest of the workflow and not the other one.
OnlyManifestOf(f, root, opt) ==
    /\ IsFile(f, root \o ManifestOf(opt))
    /\ \A m \in {PyprojectPath, RequirementsPath} \ {ManifestOf(opt)} :
          ~IsFile(f, root \o m)

\* C28: when a completed run left in the target the manifest of its workflow
\* and no other, a completed re-run into the same target, whichever workflow
\* it takes, leaves the manifest of its own workflow and no other:
\* requirements.txt and pyproject.toml never both exist.
C28_ExactlyOneManifest ==
    (/\ prev.valid
     /\ prev.outcome = "done"
     /\ outcome = "done"
     /\ prev.project_root = project_root
     /\ OnlyManifestOf(prev.files, project_root, prev.option))
        => OnlyManifestOf(files, project_root, option)

-----------------------------------------------------------------------------
(* Progress: the interpreter executes the next statement of main() as long *)
(* as there is one.  Starting another run is up to the user.               *)

ProgramStep ==
    \/ PromptChoice
    \/ EnsurePrereqs
    \/ AskProjectName
    \/ AskDescription
    \/ AskAuthor
    \/ EnsureProjectDir
    \/ WriteCatalogEntry
    \/ AskPoetry
    \/ WritePoetryFiles
    \/ EnsurePoetryAlias
    \/ WriteRequirements
    \/ EndOfInput

SpecLive == Spec /\ WF_vars(ProgramStep)

\* How many of the prompts issued so far are of the given kinds.
PromptCount(kinds) == Cardinality({i \in 1..Len(prompts) : prompts[i] \in kinds})

TerminalOutcomes == {"quit", "prereq", "conflict", "crash", "done"}

\* C29: a run in which a menu key has been entered ends, with one of the
\* terminal outcomes (quit, prerequisite failure, conflict abort, failure of
\* input or output, completion), and no run issues more than three base
\* prompts, one conflict prompt and seven Poetry prompts.
C29_RunsTerminate ==
    /\ [](/\ PromptCount({"project_name", "description", "author"}) <= 3
          /\ PromptCount({"conflict"}) <= 1
          /\ PromptCount({"poetry_name", "poetry_version", "poetry_description",
                          "author_name", "author_email", "license_id",
                          "requires_python"}) <= 7
          /\ pc = "exited" => outcome \in TerminalOutcomes)
    /\ (option \in {"1", "2", "q"}) ~> (pc = "exited")

\* A Poetry run that met the conflict prompt has completed after three base
\* prompts, the conflict prompt and seven Poetry prompts.
C29_Witness ==
    /\ outcome = "done"
    /\ option = "1"
    /\ PromptCount({"menu"}) >= 1
    /\ Len(prompts) - PromptCount({"menu"}) = 11
    /\ PromptCount({"conflict"}) = 1

-----------------------------------------------------------------------------
(* Two runs in ensure_poetry_alias at the same time on one rc file, and    *)
(* another writer appending lines to it.  Each call reads the file, scans  *)
(* what it read, and later writes the whole file from what it read.        *)

MaxOtherWrites == 1

Runs == {1, 2}

\* A line another program appends to the rc file.
OtherLine == <<"export", "\n">>

InitRace ==
    /\ \E f \in {FsBare} \cup {[dirs |-> BaseDirs, files |-> PutFile(NoFiles, Bashrc, c)] :
                                c \in RcTexts} :
          /\ dirs = f.dirs
          /\ files = f.files
          /\ start = f
    /\ aliasAt = [r \in Runs |-> "read"]
    /\ aliasContent = [r \in Runs |-> <<>>]
    /\ appended = 0
    /\ text = <<>>
    /\ profile = GoodProfile
    /\ osFamily = "linux"
    /\ shellEnv = Bash
    /\ pyVersion = DefaultPyVersion
    /\ faultAt = 0
    /\ stdin = <<>>
    /\ runsLeft = 0
    /\ prev = NoPrev
    /\ pc = "alias"
    /\ option = "1"
    /\ project_name = DefaultProjectName
    /\ description = DefaultDescription
    /\ author = DefaultAuthor
    /\ poetry = <<>>
    /\ project_root = HOME \o DefaultProjectName
    /\ idx = NumEntries + 1
    /\ exitCode = -1
    /\ outcome = "running"
    /\ prompts = <<>>
    /\ reported = {}
    /\ answer = <<>>
    /\ written = {}
    /\ executed = {}

RaceFrame ==
    UNCHANGED <<host, text, executed, dirs, stdin, pc, option, params, project_root,
                idx, exitCode, outcome, prompts, reported, answer, written,
                snapshots>>

\* rc_path.exists(), read_text and the duplicate scan of one run: it returns
\* when a line of what it read begins with the alias key.
AliasRead(r) ==
    /\ aliasAt[r] = "read"
    /\ LET rc == RcPath(osFamily, shellEnv)
           content == RcContent(files, rc)
       IN  /\ aliasContent' = [aliasContent EXCEPT ![r] = content]
           /\ aliasAt' = [aliasAt EXCEPT ![r] =
                            IF IsFile(files, rc) /\ AliasPresent(content)
                            THEN "returned" ELSE "write"]
    /\ UNCHANGED <<files, appended>>
    /\ RaceFrame

\* rc_path.write_text(new_content) of one run, from the content it read.
AliasWrite(r) ==
    /\ aliasAt[r] = "write"
    /\ files' = PutFile(files, RcPath(osFamily, shellEnv),
                        AliasNewContent(aliasContent[r]))
    /\ aliasAt' = [aliasAt EXCEPT ![r] = "returned"]
    /\ UNCHANGED <<aliasContent, appended>>
    /\ RaceFrame

\* Another writer appends a line to the rc file.
OtherAppend ==
    /\ appended < MaxOtherWrites
    /\ \E r \in Runs : aliasAt[r] # "returned"
    /\ LET rc == RcPath(osFamily, shellEnv)
       IN  files' = PutFile(files, rc,
                            (IF IsFile(files, rc) THEN files[rc] ELSE <<>>)
                            \o OtherLine)
    /\ appended' = appended + 1
    /\ UNCHANGED <<aliasAt, aliasContent>>
    /\ RaceFrame

NextRace ==
    \/ \E r \in Runs : AliasRead(r)
    \/ \E r \in Runs : AliasWrite(r)
    \/ OtherAppend

SpecRace == InitRace /\ [][NextRace]_vars

\* Both runs have left ensure_poetry_alias.
BothReturned == aliasAt # <<>> /\ \A r \in Runs : aliasAt[r] = "returned"

\* The rc file has at most one line beginning with the alias key.
NoSecondAliasLine == Cardinality(KeyLines(DiskText(files))) <= 1

\* The lines of the other writer that are in the rc file.
OtherLinesKept ==
    Cardinality({i \in 1..Len(DiskText(files)) : DiskText(files)[i] = "export"})

\* C30: when two runs have executed ensure_poetry_alias on the same startup
\* file, their reads and writes interleaved in any order and another writer
\* appending in between, the file has at most one line beginning with the
\* alias key and holds every line the other writer appended.
C30_ConcurrentAliasKeepsContent ==
    BothReturned
        => /\ Cardinality(KeyLines(DiskText(start.files))) <= 1 => NoSecondAliasLine
           /\ OtherLinesKept = appended

====
